---- MODULE Spec2Model ----
(***************************************************************************)
(* The Stripe webhook handler of checkout/webhook_handler.py               *)
(* (StripeWH_Handler) as a state machine over the order store.             *)
(*                                                                         *)
(* One payment event is fixed per behaviour (Init draws it from Events);   *)
(* the processor delivers it NDeliveries times, concurrently or one after  *)
(* the other (at-least-once delivery), while the synchronous checkout     *)
(* view commits its own Order for the same payment at an arbitrary moment. *)
(* A delivery is split into steps at its database operations: one step up  *)
(* to profile.save(), one per Order.objects.get, one for                   *)
(* Order.objects.create, one per bag entry, one for the final email and    *)
(* response.  Outbound mail is taken to succeed.                           *)
(*                                                                         *)
(* A second specification, SpecStored, starts the deliveries from a store  *)
(* that an earlier invocation has written for another rendering of the     *)
(* same payment (blank fields absent, letter case changed), to settle what *)
(* the lookup takes for the same identity.                                 *)
(***************************************************************************)
EXTENDS Integers, Sequences, FiniteSets, TLC

NDeliveries == 2
MaxAttempts == 5

Deliveries == 1..NDeliveries

(* Python's None, kept apart from every string the events carry ("" too). *)
None == "<None>"

----------------------------------------------------------------------------
(* json.loads / json.dumps on the bag metadata                              *)

(* A decoded JSON value: an integer, or a mapping as its items in order. *)
JInt(n) == [t |-> "int", n |-> n, items |-> <<>>]
JDict(items) == [t |-> "dict", n |-> 0, items |-> items]
KV(k, v) == [k |-> k, v |-> v]

BagTwo == "{\"1\":2,\"2\":{\"items_by_size\":{\"M\":2,\"L\":1}}}"
BagOne == "{\"1\": 3}"
BagTwoLower == "{\"1\":2,\"2\":{\"items_by_size\":{\"m\":2,\"l\":1}}}"
BagTruncated == "{\"1\": 3"

(* json.loads: the decoded value, or ok = FALSE when decoding raises. *)
JsonLoads(raw) ==
    CASE raw = BagTwo ->
           [ok |-> TRUE,
            v |-> JDict(<<KV("1", JInt(2)),
                          KV("2", JDict(<<KV("items_by_size",
                                   JDict(<<KV("M", JInt(2)), KV("L", JInt(1))>>))>>))>>)]
      [] raw = BagTwoLower ->
           [ok |-> TRUE,
            v |-> JDict(<<KV("1", JInt(2)),
                          KV("2", JDict(<<KV("items_by_size",
                                   JDict(<<KV("m", JInt(2)), KV("l", JInt(1))>>))>>))>>)]
      [] raw = BagOne -> [ok |-> TRUE, v |-> JDict(<<KV("1", JInt(3))>>)]
      [] raw = "{}" -> [ok |-> TRUE, v |-> JDict(<<>>)]
      [] OTHER -> [ok |-> FALSE, v |-> JDict(<<>>)]

RECURSIVE JsonDumps(_)
RECURSIVE JsonDumpsItems(_, _)
JsonDumpsItems(items, i) ==
    IF i > Len(items) THEN ""
    ELSE (IF i > 1 THEN ", " ELSE "")
         \o "\"" \o items[i].k \o "\": " \o JsonDumps(items[i].v)
         \o JsonDumpsItems(items, i + 1)
JsonDumps(v) ==
    IF v.t = "int" THEN ToString(v.n)
    ELSE "{" \o JsonDumpsItems(v.items, 1) \o "}"

----------------------------------------------------------------------------
(* The payment events the processor may deliver                             *)

Succeeded == "payment_intent.succeeded"
Failed == "payment_intent.payment_failed"

EvBase ==
    [type |-> Succeeded, pid |-> "pi_1", latest_charge |-> "ch_1",
     bag |-> BagTwo, save_info |-> None, username |-> None,
     billing_email |-> "ann@x.com", shipping_email |-> None, amount |-> 1999,
     name |-> "Ann Lee", phone |-> "555",
     address |-> [line1 |-> "1 Main St", line2 |-> "", city |-> "Leeds",
                  state |-> "", postal_code |-> "LS1", country |-> "GB"]]

EvAnon == [EvBase EXCEPT !.username = "AnonymousUser", !.save_info = "true",
                         !.bag = BagOne]
EvUser == [EvBase EXCEPT !.username = "ann", !.save_info = "true",
                         !.bag = BagOne, !.address.line2 = "Flat 2"]
EvUserNoSave == [EvBase EXCEPT !.username = "ann", !.save_info = "",
                               !.bag = BagOne]
EvNoProfile == [EvBase EXCEPT !.username = "bob", !.save_info = "true",
                              !.bag = BagOne]
EvFailed == [EvBase EXCEPT !.type = Failed]
EvOther == [EvBase EXCEPT !.type = "charge.refunded"]

(* Other renderings of the payment of EvBase: blank address fields absent   *)
(* instead of "", every contact and address field filled, letter case       *)
(* changed in the contact and address fields, in the payment id, in the     *)
(* bag; the email only in the shipping details, or nowhere; a bag that is   *)
(* not JSON.                                                                *)
EvAbsent == [EvBase EXCEPT !.address.line2 = None, !.address.state = None]
EvFull == [EvBase EXCEPT !.address.line2 = "Flat 2", !.address.state = "Yorks",
                         !.phone = "555 ext 2"]
EvUpper ==
    [EvFull EXCEPT !.name = "ANN LEE", !.billing_email = "ANN@X.COM",
                   !.phone = "555 EXT 2",
                   !.address = [line1 |-> "1 MAIN ST", line2 |-> "FLAT 2",
                                city |-> "LEEDS", state |-> "YORKS",
                                postal_code |-> "ls1", country |-> "gb"]]
EvPidUpper == [EvFull EXCEPT !.pid = "PI_1"]
EvBagLower == [EvFull EXCEPT !.bag = BagTwoLower]
EvShipEmail == [EvBase EXCEPT !.billing_email = "", !.shipping_email = "ship@x.com"]
EvNoEmail == [EvBase EXCEPT !.billing_email = None, !.shipping_email = None]
EvBadBag == [EvBase EXCEPT !.bag = BagTruncated]

Events == {EvBase, EvAnon, EvUser, EvUserNoSave, EvNoProfile, EvFailed, EvOther}

ProductIds == {"1", "2"}
Usernames == {"ann"}

(* str.lower() on the strings the events carry, as iexact folds case. *)
LowerMap ==
    [s \in {"ANN LEE", "Ann Lee"} |-> "ann lee"]
    @@ [s \in {"ANN@X.COM"} |-> "ann@x.com"]
    @@ [s \in {"555 EXT 2"} |-> "555 ext 2"]
    @@ [s \in {"1 MAIN ST", "1 Main St"} |-> "1 main st"]
    @@ [s \in {"FLAT 2", "Flat 2"} |-> "flat 2"]
    @@ [s \in {"LEEDS", "Leeds"} |-> "leeds"]
    @@ [s \in {"YORKS", "Yorks"} |-> "yorks"]
    @@ [s \in {"LS1"} |-> "ls1"]
    @@ [s \in {"GB"} |-> "gb"]
    @@ [s \in {"PI_1"} |-> "pi_1"]
    @@ [s \in {JsonDumps(JsonLoads(BagTwo).v)} |-> JsonDumps(JsonLoads(BagTwoLower).v)]
Lower(s) == IF s \in DOMAIN LowerMap THEN LowerMap[s] ELSE s

(* Python truthiness of an optional string: None and "" are falsy. *)
Truthy(s) == s # None /\ s # ""

----------------------------------------------------------------------------
(* Values handle_payment_intent_succeeded derives from the event            *)

(* Mutant: a bag that fails to decode is left as a value that is no mapping. *)
BagDataNotReset(e) ==
    LET r == JsonLoads(IF e.bag = None THEN "{}" ELSE e.bag)
    IN  IF r.ok THEN r.v ELSE JInt(0)

(* bag_data: the decoded bag, {} when json.loads raises. *)
BagData(e) ==
    LET r == JsonLoads(IF e.bag = None THEN "{}" ELSE e.bag)
    IN  IF r.ok THEN r.v ELSE JDict(<<>>)

(* Mutant: the shipping email is never looked at. *)
EmailBillingOnly(e) ==
    IF Truthy(e.billing_email) THEN e.billing_email ELSE "noemail@example.com"

(* email: billing email, else shipping email, else the placeholder. *)
Email(e) ==
    IF Truthy(e.billing_email) THEN e.billing_email
    ELSE IF Truthy(e.shipping_email) THEN e.shipping_email
    ELSE "noemail@example.com"

(* grand_total = round(charge.amount / 100, 2), as units and hundredths. *)
GrandTotal(e) == [units |-> e.amount \div 100, cents |-> e.amount % 100]

(* Mutant: the address fields are used as they arrive. *)
AddressAsIs(e) == e.address

(* shipping_details.address after blank fields are replaced with None. *)
Address(e) ==
    [f \in DOMAIN e.address |-> IF e.address[f] = "" THEN None ELSE e.address[f]]

(* The username names a logged-in user. *)
NamedUser(e) == Truthy(e.username) /\ e.username # "AnonymousUser"

(* Mutant: the profile takes the address fields as they arrived. *)
ProfileDefaultsRaw(e) ==
    [default_phone_number |-> e.phone,
     default_country |-> e.address.country,
     default_postcode |-> e.address.postal_code,
     default_town_or_city |-> e.address.city,
     default_street_address1 |-> e.address.line1,
     default_street_address2 |-> e.address.line2,
     default_county |-> e.address.state]

(* The default_* fields written to the profile when save_info is set. *)
ProfileDefaults(e) ==
    [default_phone_number |-> e.phone,
     default_country |-> Address(e).country,
     default_postcode |-> Address(e).postal_code,
     default_town_or_city |-> Address(e).city,
     default_street_address1 |-> Address(e).line1,
     default_street_address2 |-> Address(e).line2,
     default_county |-> Address(e).state]

(* The field values both Order.objects.get and Order.objects.create take   *)
(* from the event.                                                         *)
OrderKwargs(e) ==
    [full_name |-> e.name,
     email |-> Email(e),
     phone_number |-> e.phone,
     country |-> Address(e).country,
     postcode |-> Address(e).postal_code,
     town_or_city |-> Address(e).city,
     street_address1 |-> Address(e).line1,
     street_address2 |-> Address(e).line2,
     county |-> Address(e).state,
     grand_total |-> GrandTotal(e),
     original_bag |-> JsonDumps(BagData(e)),
     stripe_pid |-> e.pid]

(* Mutant: the comparison tells letter case apart. *)
IExactCaseSensitive(stored, q) == stored = q

(* field__iexact=q: IS NULL for None, else a case-folded comparison. *)
IExact(stored, q) ==
    IF q = None THEN stored = None
    ELSE stored # None /\ Lower(stored) = Lower(q)

(* The filter of Order.objects.get: iexact on the contact and address      *)
(* fields, exact on grand_total, original_bag and stripe_pid.              *)
Matches(o, q) ==
    /\ IExact(o.full_name, q.full_name)
    /\ IExact(o.email, q.email)
    /\ IExact(o.phone_number, q.phone_number)
    /\ IExact(o.country, q.country)
    /\ IExact(o.postcode, q.postcode)
    /\ IExact(o.town_or_city, q.town_or_city)
    /\ IExact(o.street_address1, q.street_address1)
    /\ IExact(o.street_address2, q.street_address2)
    /\ IExact(o.county, q.county)
    /\ o.grand_total = q.grand_total
    /\ o.original_bag = q.original_bag
    /\ o.stripe_pid = q.stripe_pid

(* Lines 118-131: the values Order.objects.get filters on. *)
LookupFilter(e) == OrderKwargs(e)

(* Lines 151-165: the values Order.objects.create stores. *)
CreateFields(e) ==
    [user_profile |-> IF NamedUser(e) THEN e.username ELSE None] @@ OrderKwargs(e)

----------------------------------------------------------------------------
(* State                                                                    *)

VARIABLES
    event,      \* the payment event the processor delivers
    orders,     \* Order rows
    lineItems,  \* OrderLineItem rows
    profiles,   \* UserProfile rows, by username
    products,   \* ids of the Product rows that exist
    nextId,     \* next Order primary key
    checkout,   \* the synchronous checkout view's write
    pc,         \* per delivery: where the handler is
    attempt,    \* per delivery: local attempt
    order,      \* per delivery: local order (primary key, or 0 for None)
    idx,        \* per delivery: position in bag_data.items()
    resp,       \* per delivery: the HttpResponse returned, or the exception raised
    log         \* per delivery: what the invocation has done so far

vars == <<event, orders, lineItems, profiles, products, nextId, checkout,
          pc, attempt, order, idx, resp, log>>

store == <<orders, lineItems, profiles, nextId>>

NoResp == [status |-> 0, content |-> "", raised |-> ""]
HttpResponse(content, status) == [status |-> status, content |-> content, raised |-> ""]
(* Mutant: an exception is answered with 500. *)
RaisedAnswers500(exc) == [status |-> 500, content |-> exc, raised |-> ""]

Raised(exc) == [status |-> 0, content |-> "", raised |-> exc]

(* lookups: Order.objects.get calls; mail: the confirmation emails sent;    *)
(* saves: profile.save() calls; createCalls: Order.objects.create calls;    *)
(* created, deleted: keys of the Orders created and deleted; itemWrites:    *)
(* OrderLineItem rows created; failure: the operation that raised; prior:   *)
(* the deliveries that had returned 200 when this one arrived; ended: the   *)
(* deliveries that had ended, in any way, when this one arrived.            *)
NoLog == [lookups |-> 0, mail |-> <<>>, saves |-> 0, createCalls |-> 0,
          created |-> {}, deleted |-> {}, itemWrites |-> 0, failure |-> "",
          prior |-> {}, ended |-> {}]

UnsetProfile ==
    [default_phone_number |-> None, default_country |-> None,
     default_postcode |-> None, default_town_or_city |-> None,
     default_street_address1 |-> None, default_street_address2 |-> None,
     default_county |-> None]

Init ==
    /\ event \in Events
    /\ orders = {}
    /\ lineItems = {}
    /\ profiles = [u \in Usernames |-> UnsetProfile]
    /\ products = ProductIds
    /\ nextId = 1
    /\ checkout = [done |-> FALSE, lookupsAt |-> [d \in Deliveries |-> 0]]
    /\ pc = [d \in Deliveries |-> "idle"]
    /\ attempt = [d \in Deliveries |-> 0]
    /\ order = [d \in Deliveries |-> 0]
    /\ idx = [d \in Deliveries |-> 0]
    /\ resp = [d \in Deliveries |-> NoResp]
    /\ log = [d \in Deliveries |-> NoLog]

(* An Order row: the create() keyword arguments, the primary key, and who  *)
(* wrote the row.                                                          *)
OrderRow(id, by, fields) == [id |-> id, by |-> by] @@ fields

(* The webhook view's dispatch on event['type'].                           *)
HandlerFor(type) ==
    CASE type = Succeeded -> "handle_payment_intent_succeeded"
      [] type = Failed -> "handle_payment_intent_payment_failed"
      [] OTHER -> "handle_event"

(* Delivery d arrives: deliveries are numbered in order of arrival. *)
Arrives(d, handler) ==
    /\ pc[d] = "idle"
    /\ \A c \in Deliveries : c < d => pc[c] # "idle"
    /\ HandlerFor(event.type) = handler

Returned200 == {d \in Deliveries : pc[d] = "done" /\ resp[d].status = 200}

(* The deliveries that have ended, with a response or an exception. *)
Ended == {d \in Deliveries : pc[d] = "done"}

(* The invocation ends: it returns r, or r records the uncaught exception. *)
Ends(d, r) ==
    /\ pc' = [pc EXCEPT ![d] = "done"]
    /\ resp' = [resp EXCEPT ![d] = r]

----------------------------------------------------------------------------
(* handle_event and handle_payment_intent_payment_failed                    *)

(* Mutant: the catch-all handler answers 500. *)
HandleEventAs500(d) ==
    /\ Arrives(d, "handle_event")
    /\ Ends(d, HttpResponse("Unhandled webhook received", 500))
    /\ log' = [log EXCEPT ![d].prior = Returned200, ![d].ended = Ended]
    /\ UNCHANGED <<event, store, products, checkout, attempt, order, idx>>

HandleEvent(d) ==
    /\ Arrives(d, "handle_event")
    /\ Ends(d, HttpResponse("Unhandled webhook received", 200))
    /\ log' = [log EXCEPT ![d].prior = Returned200, ![d].ended = Ended]
    /\ UNCHANGED <<event, store, products, checkout, attempt, order, idx>>

HandlePaymentIntentPaymentFailed(d) ==
    /\ Arrives(d, "handle_payment_intent_payment_failed")
    /\ Ends(d, HttpResponse("Payment failed webhook received", 200))
    /\ log' = [log EXCEPT ![d].prior = Returned200, ![d].ended = Ended]
    /\ UNCHANGED <<event, store, products, checkout, attempt, order, idx>>

----------------------------------------------------------------------------
(* handle_payment_intent_succeeded                                          *)

(* Mutant: the loop runs once more. *)
LoopContinuesSix(a) == a <= MaxAttempts + 1

(* while attempt <= 5 *)
LoopContinues(a) == a <= MaxAttempts

AfterLoopTest(a) == IF LoopContinues(a) THEN "lookup" ELSE "create"

(* Mutant: the profile is saved whether or not save_info is set. *)
SavesProfileAlways(e) == NamedUser(e)

(* if username and username != "AnonymousUser": ... if save_info: *)
SavesProfile(e) == NamedUser(e) /\ Truthy(e.save_info)

(* Lines 61-114: charge retrieval, derived values, profile lookup and save. *)
Begin(d) ==
    /\ Arrives(d, "handle_payment_intent_succeeded")
    /\ \E chargeOk \in BOOLEAN :
         IF ~chargeOk
         THEN /\ Ends(d, Raised("stripe.error.StripeError"))
              /\ log' = [log EXCEPT ![d].prior = Returned200, ![d].ended = Ended,
                                    ![d].failure = "charge_retrieve"]
              /\ UNCHANGED <<profiles, attempt>>
         ELSE IF NamedUser(event) /\ event.username \notin DOMAIN profiles
         THEN /\ Ends(d, Raised("UserProfile.DoesNotExist"))
              /\ log' = [log EXCEPT ![d].prior = Returned200, ![d].ended = Ended,
                                    ![d].failure = "profile_get"]
              /\ UNCHANGED <<profiles, attempt>>
         ELSE /\ IF SavesProfile(event)
                 THEN /\ profiles' = [profiles EXCEPT
                                        ![event.username] = ProfileDefaults(event)]
                      /\ log' = [log EXCEPT ![d].prior = Returned200, ![d].ended = Ended,
                                            ![d].saves = @ + 1]
                 ELSE /\ profiles' = profiles
                      /\ log' = [log EXCEPT ![d].prior = Returned200, ![d].ended = Ended]
              /\ attempt' = [attempt EXCEPT ![d] = 1]
              /\ pc' = [pc EXCEPT ![d] = AfterLoopTest(1)]
              /\ resp' = resp
    /\ UNCHANGED <<event, orders, lineItems, nextId, products, checkout, order, idx>>

(* The rows Order.objects.get's filter selects. *)
Found == {o \in orders : Matches(o, LookupFilter(event))}

(* Mutant: an Order that has been notified about is not notified about again. *)
SendOncePerOrder(mail, o) ==
    IF \E c \in Deliveries : \E i \in 1..Len(log[c].mail) : log[c].mail[i].order = o.id
    THEN mail
    ELSE Append(mail, [to |-> o.email, order |-> o.id])

(* Mutant: no message is sent. *)
SendNothing(mail, o) == mail

(* _send_confirmation_email(order): one message to order.email. *)
SendConfirmationEmail(mail, o) == Append(mail, [to |-> o.email, order |-> o.id])

(* Mutant: the "created" response carries 201. *)
Created201 == HttpResponse("New order created successfully", 201)

Existed200 == HttpResponse("Order already existed", 200)
Created200 == HttpResponse("New order created successfully", 200)

(* Lines 116-147: one pass of the retry loop; a hit sends the email and    *)
(* returns 200, a miss sleeps and tests the loop again, two or more hits   *)
(* raise MultipleObjectsReturned, which nothing catches.                   *)
Lookup(d) ==
    /\ pc[d] = "lookup"
    /\ CASE Cardinality(Found) = 1 ->
              LET o == CHOOSE x \in Found : TRUE
              IN  /\ order' = [order EXCEPT ![d] = o.id]
                  /\ Ends(d, Existed200)
                  /\ log' = [log EXCEPT ![d].lookups = @ + 1,
                                        ![d].mail = SendConfirmationEmail(@, o)]
                  /\ UNCHANGED attempt
         [] Cardinality(Found) = 0 ->
              /\ attempt' = [attempt EXCEPT ![d] = @ + 1]
              /\ pc' = [pc EXCEPT ![d] = AfterLoopTest(attempt[d] + 1)]
              /\ log' = [log EXCEPT ![d].lookups = @ + 1]
              /\ UNCHANGED <<order, resp>>
         [] OTHER ->
              /\ Ends(d, Raised("Order.MultipleObjectsReturned"))
              /\ log' = [log EXCEPT ![d].lookups = @ + 1,
                                    ![d].failure = "order_get"]
              /\ UNCHANGED <<order, attempt>>
    /\ UNCHANGED <<event, store, products, checkout, idx>>

(* Mutant: the except branch deletes every Order the lookup would match. *)
RollbackMatching(id) ==
    IF id # 0
    THEN [orders |-> orders \ Found,
          lineItems |-> {i \in lineItems : \A o \in Found : i.order # o.id},
          deleted |-> {o.id : o \in Found}]
    ELSE [orders |-> orders, lineItems |-> lineItems, deleted |-> {}]

(* Mutant: the except branch forgets order.delete(). *)
RollbackNothing(id) ==
    [orders |-> orders, lineItems |-> lineItems, deleted |-> {}]

(* except Exception: if order: order.delete() -- with the cascade to the   *)
(* order's line items; the rows left and the keys deleted.                 *)
Rollback(id) ==
    IF id # 0
    THEN [orders |-> {o \in orders : o.id # id},
          lineItems |-> {i \in lineItems : i.order # id},
          deleted |-> {id}]
    ELSE [orders |-> orders, lineItems |-> lineItems, deleted |-> {}]

(* Mutant: the error response carries 400. *)
Error400 == HttpResponse("Webhook error: Could not create order", 400)

Error500 == HttpResponse("Webhook error: Could not create order", 500)

(* Lines 150-165 and 188-194: Order.objects.create; when it raises, order  *)
(* is still None, nothing is deleted and the handler returns 500.          *)
CreateOrder(d) ==
    /\ pc[d] = "create"
    /\ \E createOk \in BOOLEAN :
         IF createOk
         THEN /\ orders' = orders \cup
                    {OrderRow(nextId, d, CreateFields(event))}
              /\ nextId' = nextId + 1
              /\ order' = [order EXCEPT ![d] = nextId]
              /\ idx' = [idx EXCEPT ![d] = 1]
              /\ pc' = [pc EXCEPT ![d] = "items"]
              /\ log' = [log EXCEPT ![d].createCalls = @ + 1,
                                    ![d].created = @ \cup {nextId}]
              /\ UNCHANGED <<lineItems, resp>>
         ELSE LET rb == Rollback(order[d])
              IN  /\ orders' = rb.orders
                  /\ lineItems' = rb.lineItems
                  /\ Ends(d, Error500)
                  /\ log' = [log EXCEPT ![d].createCalls = @ + 1,
                                        ![d].deleted = @ \cup rb.deleted,
                                        ![d].failure = "order_create"]
                  /\ UNCHANGED <<nextId, order, idx>>
    /\ UNCHANGED <<event, profiles, products, checkout, attempt>>

(* item_data is an int, or a mapping with a mapping under "items_by_size". *)
SizesOf(v) ==
    IF v.t = "dict" /\ \E i \in 1..Len(v.items) :
                          v.items[i].k = "items_by_size" /\ v.items[i].v.t = "dict"
    THEN (CHOOSE i \in 1..Len(v.items) : v.items[i].k = "items_by_size")
    ELSE 0

(* Mutant: a sized entry yields a row for its first size only. *)
LineItemsForFirstSize(id, n, entry) ==
    IF entry.v.t = "int"
    THEN {[order |-> id, entry |-> n, product |-> entry.k,
           quantity |-> entry.v.n, product_size |-> None]}
    ELSE LET sizes == entry.v.items[SizesOf(entry.v)].v.items
         IN  {[order |-> id, entry |-> n, product |-> entry.k,
               quantity |-> sizes[1].v.n, product_size |-> sizes[1].k]}

(* Lines 172-186: the OrderLineItem rows one bag entry produces. *)
LineItemsFor(id, n, entry) ==
    IF entry.v.t = "int"
    THEN {[order |-> id, entry |-> n, product |-> entry.k,
           quantity |-> entry.v.n, product_size |-> None]}
    ELSE LET sizes == entry.v.items[SizesOf(entry.v)].v.items
         IN  {[order |-> id, entry |-> n, product |-> entry.k,
               quantity |-> sizes[j].v.n, product_size |-> sizes[j].k] :
                  j \in 1..Len(sizes)}

(* The entry raises: Product.DoesNotExist, or item_data has no sizes. *)
EntryRaises(entry) ==
    \/ entry.k \notin products
    \/ entry.v.t # "int" /\ SizesOf(entry.v) = 0

BagItems == IF BagData(event).t = "dict" THEN BagData(event).items ELSE <<>>

(* Lines 167-194: one turn of the loop over bag_data.items(); an exception *)
(* deletes the order and returns 500.                                      *)
CreateLineItems(d) ==
    /\ pc[d] = "items"
    /\ BagData(event).t # "dict" \/ idx[d] <= Len(BagItems)
    /\ IF BagData(event).t # "dict" \/ EntryRaises(BagItems[idx[d]])
       THEN LET rb == Rollback(order[d])
            IN  /\ orders' = rb.orders
                /\ lineItems' = rb.lineItems
                /\ Ends(d, Error500)
                /\ log' = [log EXCEPT ![d].deleted = @ \cup rb.deleted,
                                      ![d].failure = "line_item"]
                /\ UNCHANGED idx
       ELSE LET new == LineItemsFor(order[d], idx[d], BagItems[idx[d]])
            IN  /\ lineItems' = lineItems \cup new
                /\ idx' = [idx EXCEPT ![d] = @ + 1]
                /\ log' = [log EXCEPT ![d].itemWrites = @ + Cardinality(new)]
                /\ UNCHANGED <<orders, pc, resp>>
    /\ UNCHANGED <<event, profiles, nextId, products, checkout, attempt, order>>

(* Lines 196-205: the confirmation email and the 200 response. *)
Finish(d) ==
    /\ pc[d] = "items"
    /\ BagData(event).t = "dict" /\ idx[d] > Len(BagItems)
    /\ \E o \in {x \in orders : x.id = order[d]} :
         log' = [log EXCEPT ![d].mail = SendConfirmationEmail(@, o)]
    /\ Ends(d, Created200)
    /\ UNCHANGED <<event, store, products, checkout, attempt, order, idx>>

----------------------------------------------------------------------------
(* The other writers                                                        *)

(* The "by" of a row the checkout view wrote (deliveries are 1, 2, ...). *)
ByCheckout == 0

(* The Order the checkout view stores for the payment. *)
CheckoutFields(e) ==
    [user_profile |-> IF NamedUser(e) THEN e.username ELSE None] @@ OrderKwargs(e)

(* The checkout view commits the Order of the same payment, once;          *)
(* lookupsAt records how many lookups each delivery had made by then.      *)
CheckoutCommit ==
    /\ ~checkout.done
    /\ HandlerFor(event.type) = "handle_payment_intent_succeeded"
    /\ orders' = orders \cup
          {OrderRow(nextId, ByCheckout, CheckoutFields(event))}
    /\ nextId' = nextId + 1
    /\ checkout' = [done |-> TRUE,
                    lookupsAt |-> [d \in Deliveries |-> log[d].lookups]]
    /\ UNCHANGED <<event, lineItems, profiles, products, pc, attempt, order,
                   idx, resp, log>>

(* A product is deleted from the catalogue, or put back. *)
DeleteProduct(p) ==
    /\ p \in products
    /\ products' = products \ {p}
    /\ UNCHANGED <<event, store, checkout, pc, attempt, order, idx, resp, log>>

RestoreProduct(p) ==
    /\ p \notin products
    /\ products' = products \cup {p}
    /\ UNCHANGED <<event, store, checkout, pc, attempt, order, idx, resp, log>>

Next ==
    \/ \E d \in Deliveries : HandleEvent(d)
    \/ \E d \in Deliveries : HandlePaymentIntentPaymentFailed(d)
    \/ \E d \in Deliveries : Begin(d)
    \/ \E d \in Deliveries : Lookup(d)
    \/ \E d \in Deliveries : CreateOrder(d)
    \/ \E d \in Deliveries : CreateLineItems(d)
    \/ \E d \in Deliveries : Finish(d)
    \/ CheckoutCommit
    \/ \E p \in ProductIds : DeleteProduct(p)
    \/ \E p \in ProductIds : RestoreProduct(p)

Spec == Init /\ [][Next]_vars

----------------------------------------------------------------------------
(* Deliveries that start from a store an earlier invocation has written     *)
(*                                                                          *)
(* The store holds nothing, or the Order and OrderLineItems that an earlier *)
(* invocation of handle_payment_intent_succeeded created (and answered 200  *)
(* for) from one rendering of the payment; the deliveries then carry a      *)
(* rendering that may differ from it in blank fields or in letter case.     *)

(* The invocation that ran before the deliveries. *)
Earlier == NDeliveries + 1

StoredEvents == {EvBase, EvAbsent, EvUpper, EvPidUpper, EvBagLower}
LaterEvents == {EvBase, EvAbsent, EvFull, EvShipEmail, EvNoEmail, EvBadBag}

(* What the "created" path leaves in the store for event e under key id. *)
CreatedOrder(id, e) == OrderRow(id, Earlier, CreateFields(e))
CreatedLineItems(id, e) ==
    UNION {LineItemsFor(id, n, BagData(e).items[n]) : n \in 1..Len(BagData(e).items)}

InitStored ==
    /\ event \in LaterEvents
    /\ \/ orders = {} /\ lineItems = {} /\ nextId = 1
       \/ \E e \in StoredEvents :
             /\ orders = {CreatedOrder(1, e)}
             /\ lineItems = CreatedLineItems(1, e)
             /\ nextId = 2
    /\ profiles = [u \in Usernames |-> UnsetProfile]
    /\ products = ProductIds
    /\ checkout = [done |-> FALSE, lookupsAt |-> [d \in Deliveries |-> 0]]
    /\ pc = [d \in Deliveries |-> "idle"]
    /\ attempt = [d \in Deliveries |-> 0]
    /\ order = [d \in Deliveries |-> 0]
    /\ idx = [d \in Deliveries |-> 0]
    /\ resp = [d \in Deliveries |-> NoResp]
    /\ log = [d \in Deliveries |-> NoLog]

NextStored ==
    \/ \E d \in Deliveries : Begin(d)
    \/ \E d \in Deliveries : Lookup(d)
    \/ \E d \in Deliveries : CreateOrder(d)
    \/ \E d \in Deliveries : CreateLineItems(d)
    \/ \E d \in Deliveries : Finish(d)

SpecStored == InitStored /\ [][NextStored]_vars

(* The Order the earlier invocation left, if any. *)
StoredOrders == {o \in orders : o.by = Earlier}

----------------------------------------------------------------------------
(* Shorthand for the properties                                             *)

IsSucceeded == HandlerFor(event.type) = "handle_payment_intent_succeeded"
Done(d) == pc[d] = "done"
Sent(d) == Len(log[d].mail)

----------------------------------------------------------------------------
(* C1: sequential idempotence.  When a delivery d2 of a payment-succeeded   *)
(* event arrives after a delivery d1 of the same event has returned 200,    *)
(* (and d2's charge retrieval succeeds), d2 ends by returning 200 through   *)
(* the "order already existed" path without calling Order create, and       *)
(* exactly one Order with the identity tuple exists when it returns.        *)
C1_SequentialIdempotence ==
    [][ \A d1, d2 \in Deliveries :
          ( /\ IsSucceeded
            /\ ~Done(d2) /\ pc'[d2] = "done"
            /\ d1 \in log'[d2].prior
            /\ log'[d2].failure # "charge_retrieve" )
          => /\ resp'[d2] = Existed200
             /\ log'[d2].createCalls = 0
             /\ Cardinality({o \in orders' : Matches(o, LookupFilter(event))}) = 1
      ]_vars

(* C2: at most one Order exists per identity tuple, in every reachable      *)
(* state, under any interleaving of the checkout and the deliveries.        *)
C2_AtMostOneOrderPerIdentity ==
    \A o1, o2 \in orders : Matches(o1, o2) => o1.id = o2.id

(* C3: a payment-failed event and an event of an unhandled kind are         *)
(* acknowledged with 200, and the step that handles them leaves the Order   *)
(* store, the OrderLineItem store and every UserProfile unchanged and sends *)
(* no notification.                                                         *)
C3_AcknowledgeOnly ==
    [][ \A d \in Deliveries :
          (~IsSucceeded /\ pc[d] = "idle" /\ pc'[d] = "done")
          => /\ resp'[d].status = 200
             /\ resp'[d].raised = ""
             /\ orders' = orders
             /\ lineItems' = lineItems
             /\ profiles' = profiles
             /\ \A c \in Deliveries : log'[c].mail = log[c].mail ]_vars

(* An event that is not a payment success has been handled. *)
C3_Witness ==
    \E d \in Deliveries : ~IsSucceeded /\ Done(d) /\ resp[d].status = 200

(* C4: compensating rollback.  When an invocation created its Order and a   *)
(* later line-item step failed, then once the handler has returned the      *)
(* Order it created (and every line item of it) is absent from the store    *)
(* and the response status is 500.                                          *)
C4_CompensatingRollback ==
    \A d \in Deliveries :
        (Done(d) /\ log[d].created # {} /\ log[d].failure = "line_item")
        => /\ resp[d].status = 500
           /\ \A o \in orders : o.id \notin log[d].created
           /\ \A i \in lineItems : i.order \notin log[d].created

(* A line item was written before a later entry failed and was rolled back. *)
C4_Witness ==
    \E d \in Deliveries :
        /\ Done(d) /\ log[d].failure = "line_item"
        /\ log[d].created # {} /\ log[d].itemWrites > 0

(* C5: bounded retry before create.  An invocation performs at most 5       *)
(* lookups; it calls Order create only after exactly 5 lookups that all     *)
(* found nothing; and when creation then succeeds it returns 200 "created"  *)
(* having performed exactly one Order write.                                *)
C5_BoundedRetryBeforeCreate ==
    \A d \in Deliveries :
        /\ log[d].lookups <= 5
        /\ pc[d] \in {"create", "items"} => log[d].lookups = 5
        /\ log[d].createCalls > 0 => log[d].lookups = 5 /\ resp[d] # Existed200
        /\ (Done(d) /\ log[d].created # {} /\ log[d].failure = "")
           => /\ resp[d] = Created200
              /\ log[d].createCalls = 1
              /\ Cardinality(log[d].created) = 1
              /\ log[d].deleted = {}
              /\ \E o \in orders : o.id \in log[d].created /\ o.by = d

(* Five lookups missed and the invocation created the order. *)
C5_Witness ==
    \E d \in Deliveries :
        Done(d) /\ log[d].lookups = 5 /\ resp[d] = Created200

(* C6: race with checkout.  When the checkout's Order is committed before   *)
(* the invocation's fifth lookup is executed, the invocation calls no Order *)
(* create and writes no line item, and once it has made a lookup after the  *)
(* commit it has returned 200 through the "found" path.                     *)
C6_RaceWithCheckout ==
    \A d \in Deliveries :
        (checkout.done /\ checkout.lookupsAt[d] < 5)
        => /\ pc[d] \notin {"create", "items"}
           /\ log[d].createCalls = 0
           /\ log[d].itemWrites = 0
           /\ log[d].lookups > checkout.lookupsAt[d]
              => Done(d) /\ resp[d] = Existed200

(* C7 as stated: every invocation ends by returning a response whose status *)
(* is 200 or 500, 500 only after an Order or OrderLineItem construction     *)
(* step failed, and a 200 from handle_payment_intent_succeeded only after a *)
(* matching Order was found or was created by the invocation.               *)
C7_AlwaysReturnsResponse ==
    \A d \in Deliveries :
        Done(d)
        => /\ resp[d].raised = ""
           /\ resp[d].status \in {200, 500}
           /\ resp[d].status = 500 => log[d].failure \in {"order_create", "line_item"}
           /\ (resp[d].status = 200 /\ IsSucceeded)
              => order[d] # 0 \/ log[d].created # {}

(* C7, amended: an invocation has no response before it ends, and it ends   *)
(* either by returning one response whose status is 200 or 500, or by       *)
(* raising an exception it does not catch, which happens exactly when the   *)
(* charge retrieval fails, the named user has no profile, or a lookup       *)
(* matches more than one Order; the status is 500 only after an Order or    *)
(* OrderLineItem construction step failed in that invocation; a 200 from    *)
(* handle_payment_intent_succeeded means a matching Order was found or was  *)
(* created by that invocation.                                              *)
C7_ResponseOrUncaughtException ==
    \A d \in Deliveries :
        /\ ~Done(d) => resp[d] = NoResp
        /\ Done(d)
           => /\ \/ resp[d].raised = "" /\ resp[d].status \in {200, 500}
                 \/ resp[d].raised # "" /\ resp[d].status = 0
              /\ resp[d].raised # ""
                 <=> log[d].failure \in {"charge_retrieve", "profile_get", "order_get"}
              /\ resp[d].status = 500
                 <=> log[d].failure \in {"order_create", "line_item"}
              /\ (resp[d].status = 200 /\ IsSucceeded)
                 => \/ resp[d] = Existed200 /\ order[d] # 0 /\ log[d].created = {}
                    \/ resp[d] = Created200 /\ order[d] \in log[d].created

(* One delivery ended in an uncaught exception, another returned 200. *)
C7_Witness ==
    \E d1, d2 \in Deliveries :
        /\ Done(d1) /\ resp[d1].raised # ""
        /\ Done(d2) /\ resp[d2] = Created200

(* C8 as stated: a failed charge retrieval, a missing profile of a named    *)
(* user and a missing product during line-item construction each make the   *)
(* handler return a 500 response with diagnostic text.                      *)
C8_LookupFailuresReturn500 ==
    \A d \in Deliveries :
        (Done(d) /\ log[d].failure \in {"charge_retrieve", "profile_get", "line_item"})
        => resp[d].status = 500 /\ resp[d].content # ""

(* C8, amended: a product lookup that fails during line-item construction   *)
(* makes the handler return a 500 response with diagnostic text; a failed   *)
(* charge retrieval and a missing profile of a named user make the handler  *)
(* raise instead: it returns no response, and it has made no lookup, no     *)
(* profile save, no Order create and sent no notification.                  *)
C8_OnlyConstructionFailureReturns500 ==
    \A d \in Deliveries :
        Done(d)
        => /\ log[d].failure = "line_item"
              => resp[d].status = 500 /\ resp[d].content # "" /\ resp[d].raised = ""
           /\ log[d].failure \in {"charge_retrieve", "profile_get"}
              => /\ resp[d].status = 0 /\ resp[d].raised # ""
                 /\ log[d].lookups = 0 /\ log[d].saves = 0
                 /\ log[d].createCalls = 0 /\ log[d].mail = <<>>

(* One delivery failed at the charge retrieval, another at a product. *)
C8_Witness ==
    \E d1, d2 \in Deliveries :
        /\ Done(d1) /\ log[d1].failure = "charge_retrieve"
        /\ Done(d2) /\ log[d2].failure = "line_item"

(* C9: per invocation at most one notification is sent, at most one profile *)
(* save is made and at most one Order is created; a payment-succeeded       *)
(* invocation that returns 200 has sent exactly one notification, on the    *)
(* "found" and on the "created" path, and one that returns 500 has sent     *)
(* none.                                                                    *)
C9_SideEffectsPerInvocation ==
    \A d \in Deliveries :
        /\ Sent(d) <= 1
        /\ log[d].saves <= 1
        /\ log[d].createCalls <= 1
        /\ Cardinality(log[d].created) <= 1
        /\ (IsSucceeded /\ resp[d].status = 200) => Sent(d) = 1
        /\ resp[d].status = 500 => Sent(d) = 0
        /\ ~Done(d) => Sent(d) = 0

(* One delivery rolled back and returned 500 without a notification, the   *)
(* other found the checkout's order and sent one.                          *)
C9_Witness ==
    \E d1, d2 \in Deliveries :
        /\ resp[d1].status = 500 /\ log[d1].deleted # {} /\ Sent(d1) = 0
        /\ resp[d2] = Existed200 /\ Sent(d2) = 1

(* C10: the handler saves a profile only when the intent carries a          *)
(* non-empty username other than "AnonymousUser" and save_info is set; then *)
(* every payment-succeeded invocation that returns 200, on the "found" as   *)
(* on the "created" path, has saved it exactly once and the profile holds   *)
(* the shipping details (blank address fields as None); in every other case *)
(* all profiles are as they were.                                           *)
C10_ProfileSavedOnlyWhenAsked ==
    LET asked == /\ event.username \notin {None, "", "AnonymousUser"}
                 /\ event.save_info \notin {None, ""}
        blank(x) == IF x = "" THEN None ELSE x
    IN  /\ \A d \in Deliveries :
             /\ log[d].saves <= 1
             /\ log[d].saves = 1 => asked
             /\ (asked /\ IsSucceeded /\ resp[d].status = 200)
                => /\ log[d].saves = 1
                   /\ profiles[event.username] =
                        [default_phone_number |-> event.phone,
                         default_country |-> blank(event.address.country),
                         default_postcode |-> blank(event.address.postal_code),
                         default_town_or_city |-> blank(event.address.city),
                         default_street_address1 |-> blank(event.address.line1),
                         default_street_address2 |-> blank(event.address.line2),
                         default_county |-> blank(event.address.state)]
        /\ ~asked => profiles = [u \in Usernames |-> UnsetProfile]

(* The profile was saved on the "created" and on the "found" path. *)
C10_Witness ==
    \E d1, d2 \in Deliveries :
        /\ resp[d1] = Created200 /\ log[d1].saves = 1
        /\ resp[d2] = Existed200 /\ log[d2].saves = 1
        /\ profiles[event.username].default_street_address2 = "Flat 2"
        /\ profiles[event.username].default_county = None

----------------------------------------------------------------------------
(* The quantities a decoded bag encodes: an integer is a quantity, a        *)
(* mapping encodes the quantities of its values.                            *)
RECURSIVE JsonTotal(_)
RECURSIVE JsonTotalItems(_, _)
JsonTotalItems(items, i) ==
    IF i > Len(items) THEN 0
    ELSE JsonTotal(items[i].v) + JsonTotalItems(items, i + 1)
JsonTotal(v) == IF v.t = "int" THEN v.n ELSE JsonTotalItems(v.items, 1)

(* The sum of the quantities of a set of OrderLineItem rows. *)
RECURSIVE QuantitySum(_)
QuantitySum(rows) ==
    IF rows = {} THEN 0
    ELSE LET r == CHOOSE r \in rows : TRUE
         IN  r.quantity + QuantitySum(rows \ {r})

ItemsOf(id) == {i \in lineItems : i.order = id}

(* The bag of the event decodes to a JSON mapping. *)
BagIsMapping == JsonLoads(event.bag).ok /\ JsonLoads(event.bag).v.t = "dict"

(* C11: for a bag that is a valid JSON mapping, an invocation that returned *)
(* 200 "created" left, under its Order, exactly one sizeless OrderLineItem  *)
(* with the entry's quantity for every integer entry and exactly one        *)
(* OrderLineItem per size key, with that size's quantity, for every sized   *)
(* entry, and no other row; the quantities of the rows add up to the total  *)
(* quantity the bag encodes.                                                *)
C11_LineItemsMirrorBag ==
    \A d \in Deliveries :
        (IsSucceeded /\ BagIsMapping /\ Done(d) /\ resp[d] = Created200) =>
            LET bag == JsonLoads(event.bag).v.items
                rows == ItemsOf(order[d])
                Sizes(v) == v.items[1].v.items
                RowsLike(k, q, size) ==
                    {r \in rows : r.product = k /\ r.quantity = q
                                     /\ r.product_size = size}
                RowsOfProduct(k) == {r \in rows : r.product = k}
            IN  /\ \A n \in 1..Len(bag) :
                     IF bag[n].v.t = "int"
                     THEN /\ Cardinality(RowsLike(bag[n].k, bag[n].v.n, None)) = 1
                          /\ Cardinality(RowsOfProduct(bag[n].k)) = 1
                     ELSE /\ \A j \in 1..Len(Sizes(bag[n].v)) :
                               Cardinality(RowsLike(bag[n].k,
                                                    Sizes(bag[n].v)[j].v.n,
                                                    Sizes(bag[n].v)[j].k)) = 1
                          /\ Cardinality(RowsOfProduct(bag[n].k))
                                = Len(Sizes(bag[n].v))
                /\ \A r \in rows : \E n \in 1..Len(bag) : r.product = bag[n].k
                /\ QuantitySum(rows) = JsonTotal(JsonLoads(event.bag).v)

(* An Order was created for the bag with an integer entry and a sized      *)
(* entry (M: 2, L: 1): three rows, quantities adding up to 5.               *)
C11_Witness ==
    \E d \in Deliveries :
        /\ event.bag = BagTwo /\ Done(d) /\ resp[d] = Created200
        /\ Cardinality(ItemsOf(order[d])) = 3
        /\ QuantitySum(ItemsOf(order[d])) = 5
        /\ \E r \in ItemsOf(order[d]) :
              r.product = "2" /\ r.product_size = "L" /\ r.quantity = 1

----------------------------------------------------------------------------
(* The Order columns that hold the shipping address, by the address field   *)
(* of the event each is filled from.                                        *)
AddressColumn ==
    [line1 |-> "street_address1", line2 |-> "street_address2",
     city |-> "town_or_city", state |-> "county",
     postal_code |-> "postcode", country |-> "country"]

(* The address values a and b are the same once "" and absent are not told *)
(* apart.                                                                   *)
SameButBlank(a, b) == a = b \/ (a \in {"", None} /\ b \in {"", None})

(* Order o holds what event e carries, "" and absent not told apart in the *)
(* address.                                                                 *)
HoldsButBlank(o, e) ==
    /\ o.full_name = e.name /\ o.email = e.billing_email
    /\ o.phone_number = e.phone /\ o.stripe_pid = e.pid
    /\ o.grand_total = [units |-> e.amount \div 100, cents |-> e.amount % 100]
    /\ o.original_bag = JsonDumps(JsonLoads(e.bag).v)
    /\ \A f \in DOMAIN AddressColumn : SameButBlank(o[AddressColumn[f]], e.address[f])

(* C12: no Order the handler has persisted holds "" in an address column:   *)
(* a field of the shipping address that arrives as "" is stored as absent.  *)
(* The lookup uses absent for it as well, so the event with the field as "" *)
(* and the event with the field absent are one identity: they give the same *)
(* lookup values, and a delivery of either finds, at its first lookup, the  *)
(* Order an earlier invocation stored for the other and creates nothing.    *)
C12_BlankAddressFieldsAbsent ==
    /\ \A o \in orders : \A f \in DOMAIN AddressColumn : o[AddressColumn[f]] # ""
    /\ \A o \in orders : \A f \in DOMAIN AddressColumn :
          (o.by \in Deliveries /\ event.address[f] = "") => o[AddressColumn[f]] = None
    /\ LookupFilter(EvBase) = LookupFilter(EvAbsent)
    /\ \A d \in Deliveries : \A o \in StoredOrders :
          (Done(d) /\ log[d].failure # "charge_retrieve" /\ HoldsButBlank(o, event))
            => /\ resp[d] = Existed200 /\ order[d] = o.id
               /\ log[d].lookups = 1 /\ log[d].createCalls = 0

(* The event carries "" for two address fields, the Order an earlier        *)
(* invocation stored holds them as absent, and every delivery has found     *)
(* that Order at its first lookup.                                          *)
C12_Witness ==
    /\ event.address.line2 = "" /\ event.address.state = ""
    /\ \E o \in StoredOrders :
          /\ o.street_address2 = None /\ o.county = None
          /\ \A d \in Deliveries :
                /\ resp[d] = Existed200 /\ order[d] = o.id
                /\ log[d].lookups = 1 /\ log[d].createCalls = 0

----------------------------------------------------------------------------
(* C13: bag metadata that is not decodable JSON is the empty bag and no     *)
(* error.  An invocation given such a bag never fails in the line-item      *)
(* loop; when its five lookups found no matching Order it calls create      *)
(* once, and unless that insert itself fails it returns 200 "created" for   *)
(* an Order that stores the bag "{}" and has no OrderLineItem; it returns   *)
(* 500 only when the insert of the Order fails.                             *)
C13_UndecodableBagIsEmptyBag ==
    \A d \in Deliveries :
        (event.bag = BagTruncated /\ Done(d)) =>
            /\ log[d].failure # "line_item"
            /\ resp[d].status = 500 => log[d].failure = "order_create"
            /\ (log[d].lookups = MaxAttempts /\ resp[d] # Existed200
                   /\ log[d].failure # "order_get")
                 => log[d].createCalls = 1
            /\ (log[d].createCalls = 1 /\ log[d].failure = "")
                 => /\ resp[d] = Created200
                    /\ log[d].itemWrites = 0
                    /\ ItemsOf(order[d]) = {}
                    /\ \E o \in orders : o.id = order[d] /\ o.original_bag = "{}"

(* The bag is cut off mid-object; a delivery created the Order with the    *)
(* bag "{}" and no line items and returned 200.                             *)
C13_Witness ==
    /\ event.bag = BagTruncated
    /\ \E d \in Deliveries :
          /\ resp[d] = Created200 /\ log[d].lookups = MaxAttempts
          /\ ItemsOf(order[d]) = {}
          /\ \E o \in orders : o.id = order[d] /\ o.original_bag = "{}"

----------------------------------------------------------------------------
(* The customer email of the event: the billing email if there is one, else *)
(* the shipping email if there is one, else the placeholder.                *)
CustomerEmail ==
    IF event.billing_email \notin {None, ""} THEN event.billing_email
    ELSE IF event.shipping_email \notin {None, ""} THEN event.shipping_email
    ELSE "noemail@example.com"

(* What the lookup, the stored Orders and the failures say about the email: *)
(* the lookup filters on the customer email; every Order an invocation      *)
(* created stores it, the placeholder when the event carries no email; and  *)
(* no invocation fails in a way other than the failures every event is      *)
(* open to (charge retrieval, the Order insert, duplicate Orders).          *)
EmailLookedUpAndStored ==
    /\ IsSucceeded => LookupFilter(event).email = CustomerEmail
    /\ \A o \in orders : o.by \in Deliveries => o.email = CustomerEmail
    /\ \A o \in orders :
          (o.by \in Deliveries /\ event.billing_email \in {None, ""}
             /\ event.shipping_email \in {None, ""})
            => o.email = "noemail@example.com"
    /\ \A d \in Deliveries :
          log[d].failure \in {"", "charge_retrieve", "order_create", "order_get"}

(* C14 as stated: the email used for the lookup, for storage and for the    *)
(* notification is the customer email (billing, else shipping, else the     *)
(* placeholder), and the handler never fails because an email is missing.   *)
C14_EmailPrecedenceEverywhere ==
    /\ EmailLookedUpAndStored
    /\ \A d \in Deliveries : \A i \in 1..Sent(d) :
          log[d].mail[i].to = CustomerEmail

(* C14, amended: the lookup and the stored Order use the customer email;    *)
(* the notification goes to the email stored on the Order that was found or *)
(* created, which is the customer email on the "created" path and equal to  *)
(* it up to letter case on the "found" path; the handler never fails        *)
(* because an email is missing.                                             *)
C14_EmailPrecedenceNotifiesStoredEmail ==
    /\ EmailLookedUpAndStored
    /\ \A d \in Deliveries : \A i \in 1..Sent(d) :
          LET m == log[d].mail[i]
          IN  /\ m.order = order[d]
              /\ \A o \in orders : o.id = m.order => m.to = o.email
              /\ Lower(m.to) = Lower(CustomerEmail)
              /\ resp[d] = Created200 => m.to = CustomerEmail

(* The event carries no email at all: an Order with the placeholder was     *)
(* created and the notification went to the placeholder; the next delivery  *)
(* found that Order.                                                        *)
C14_Witness ==
    /\ event.billing_email = None /\ event.shipping_email = None
    /\ \E d1, d2 \in Deliveries :
          /\ resp[d1] = Created200 /\ resp[d2] = Existed200
          /\ \E o \in orders : o.id = order[d1] /\ o.email = "noemail@example.com"
          /\ log[d1].mail = <<[to |-> "noemail@example.com", order |-> order[d1]]>>
          /\ log[d2].mail = <<[to |-> "noemail@example.com", order |-> order[d1]]>>

----------------------------------------------------------------------------
(* C15: recovery by redelivery.  When a delivery d1 has ended in 500 after  *)
(* deleting the Order it created, and the next delivery d2 of the event     *)
(* arrives after that and meets no failure of its own (its charge is        *)
(* retrieved, its Order is inserted, every product of the bag exists), d2   *)
(* returns 200 and exactly one Order with the identity tuple exists when it *)
(* returns.                                                                 *)
C15_RecoveryByRedelivery ==
    [][ \A d1, d2 \in Deliveries :
          ( /\ IsSucceeded
            /\ d2 = d1 + 1
            /\ ~Done(d2) /\ pc'[d2] = "done"
            /\ d1 \in log'[d2].ended
            /\ resp[d1].status = 500 /\ log[d1].deleted # {}
            /\ log'[d2].failure \in {"", "order_get"} )
          => /\ resp'[d2].status = 200
             /\ Cardinality({o \in orders' : Matches(o, LookupFilter(event))}) = 1
      ]_vars

----------------------------------------------------------------------------
(* The values a and b are the same once letter case, and "" against absent, *)
(* are not told apart.                                                      *)
SameButCase(a, b) == Lower(a) = Lower(b) \/ (a \in {"", None} /\ b \in {"", None})

(* Order o holds the contact and address data of event e up to letter case. *)
ContactHeldButCase(o, e) ==
    /\ SameButCase(o.full_name, e.name)
    /\ SameButCase(o.email, e.billing_email)
    /\ SameButCase(o.phone_number, e.phone)
    /\ \A f \in DOMAIN AddressColumn : SameButCase(o[AddressColumn[f]], e.address[f])
    /\ o.grand_total = [units |-> e.amount \div 100, cents |-> e.amount % 100]

(* The bag of event e as Order.original_bag stores it. *)
SerializedBag(e) == JsonDumps(JsonLoads(e.bag).v)

(* Delivery d ended on the "found" path with Order o, having created nothing. *)
FoundIt(d, o) ==
    /\ resp[d] = Existed200 /\ order[d] = o.id
    /\ log[d].lookups = 1 /\ log[d].createCalls = 0

(* C16 as stated: the lookup is case-insensitive on every string field,     *)
(* the serialized bag and the payment id included: a delivery finds an      *)
(* existing Order that differs from the event only in letter case, and      *)
(* creates no second Order.                                                 *)
C16_CaseInsensitiveOnEveryString ==
    \A d \in Deliveries : \A o \in StoredOrders :
        ( /\ Done(d) /\ log[d].failure # "charge_retrieve"
          /\ ContactHeldButCase(o, event)
          /\ SameButCase(o.original_bag, SerializedBag(event))
          /\ SameButCase(o.stripe_pid, event.pid) )
        => FoundIt(d, o)

(* C16, amended: the lookup is case-insensitive on full name, email, phone, *)
(* country, postcode, city, both street lines and county, and exact on the  *)
(* serialized bag and the payment id.  A delivery finds an existing Order   *)
(* that differs from the event only in the letter case of those nine fields *)
(* and creates nothing; an existing Order whose serialized bag or payment   *)
(* id differs from the event's, be it only in letter case, is never found:  *)
(* a delivery that meets no failure ends with a second Order, created by    *)
(* itself or by another delivery.                                           *)
C16_CaseInsensitiveOnContactAndAddress ==
    \A d \in Deliveries : \A o \in StoredOrders :
        /\ ( /\ Done(d) /\ log[d].failure # "charge_retrieve"
             /\ ContactHeldButCase(o, event)
             /\ o.original_bag = SerializedBag(event)
             /\ o.stripe_pid = event.pid )
           => FoundIt(d, o)
        /\ (o.original_bag # SerializedBag(event) \/ o.stripe_pid # event.pid)
           => /\ order[d] # o.id
              /\ \A i \in 1..Sent(d) : log[d].mail[i].order # o.id
              /\ (Done(d) /\ log[d].failure = "")
                   => \E o2 \in orders :
                        /\ o2.by \in Deliveries /\ o2.id = order[d]
                        /\ o2.stripe_pid = event.pid
                        /\ o2.original_bag = SerializedBag(event)

(* The stored Order holds the contact and address data in upper case, the   *)
(* event in mixed case; every delivery has found it at its first lookup.    *)
C16_Witness ==
    /\ event.name = "Ann Lee" /\ event.address.city = "Leeds"
    /\ \E o \in StoredOrders :
          /\ o.full_name = "ANN LEE" /\ o.email = "ANN@X.COM"
          /\ o.town_or_city = "LEEDS" /\ o.street_address2 = "FLAT 2"
          /\ \A d \in Deliveries : FoundIt(d, o)

----------------------------------------------------------------------------
(* C17: the handler deletes only an Order that the same invocation created. *)
(* Every step that removes an Order from the store is the rollback of the   *)
(* invocation that created that Order, ending in 500; an Order written by   *)
(* the checkout or by another delivery stays, also when it appeared after   *)
(* the fifth failed lookup; an invocation whose Order.objects.create failed *)
(* has deleted nothing.                                                     *)
C17_DeletesOnlyOwnOrder ==
    [][ /\ \A o \in orders :
             o \notin orders' =>
               \E d \in Deliveries :
                   /\ o.by = d /\ o.id = order[d] /\ o.id \in log[d].created
                   /\ pc[d] # "done" /\ pc'[d] = "done" /\ resp'[d] = Error500
                   /\ log'[d].deleted = {o.id}
                   /\ orders' = orders \ {o}
        /\ \A d \in Deliveries :
             /\ log'[d].deleted \subseteq log'[d].created
             /\ log'[d].failure = "order_create" => log'[d].deleted = {}
             /\ \A id \in log'[d].deleted \ log[d].deleted :
                  \E o \in orders : o.id = id /\ o.by = d
      ]_vars

(* The checkout's Order appeared after the delivery's fifth failed lookup;  *)
(* the delivery created its own Order, failed on a line item and deleted    *)
(* its own Order, and the checkout's Order is still there.                  *)
C17_Witness ==
    \E d \in Deliveries :
        /\ resp[d] = Error500
        /\ log[d].created # {} /\ log[d].deleted = log[d].created
        /\ checkout.done /\ checkout.lookupsAt[d] = MaxAttempts
        /\ \E o \in orders : o.by = ByCheckout /\ Matches(o, LookupFilter(event))
        /\ \A o \in orders : o.by # d

----------------------------------------------------------------------------
(* The profile of the event's user holds the shipping details of the event. *)
ProfileOverwritten ==
    LET blank(x) == IF x = "" THEN None ELSE x
        p == profiles[event.username]
    IN  /\ p.default_phone_number = event.phone
        /\ p.default_country = blank(event.address.country)
        /\ p.default_postcode = blank(event.address.postal_code)
        /\ p.default_town_or_city = blank(event.address.city)
        /\ p.default_street_address1 = blank(event.address.line1)
        /\ p.default_street_address2 = blank(event.address.line2)
        /\ p.default_county = blank(event.address.state)

(* C18: the profile update is not covered by the rollback.  For an event    *)
(* with a known, non-anonymous username and the save flag set, an           *)
(* invocation has saved the profile, once, before its first lookup, and the *)
(* profile holds the shipping details of the event from then on: also after *)
(* the invocation returned 500 and deleted the Order it had created.        *)
C18_ProfileUpdateOutlivesRollback ==
    \A d \in Deliveries :
        ( /\ IsSucceeded
          /\ event.username \in Usernames
          /\ event.save_info \notin {None, ""}
          /\ \/ pc[d] \in {"lookup", "create", "items", "finish"}
             \/ log[d].lookups > 0
             \/ resp[d].status = 500 )
        => /\ log[d].saves = 1
           /\ ProfileOverwritten

(* The invocation saved the profile, created an Order, failed on a line    *)
(* item, deleted the Order and returned 500: no Order is left, and the      *)
(* profile holds the shipping details of the event.                         *)
C18_Witness ==
    \E d \in Deliveries :
        /\ resp[d] = Error500 /\ log[d].failure = "line_item"
        /\ log[d].created # {} /\ log[d].deleted = log[d].created
        /\ orders = {}
        /\ log[d].saves = 1
        /\ profiles[event.username].default_street_address2 = "Flat 2"
        /\ profiles[event.username].default_street_address1 = "1 Main St"

----------------------------------------------------------------------------
(* The deliveries of the payment-succeeded event that have returned 200,    *)
(* and the notifications sent so far, each as (delivery, position).         *)
Acknowledged == {d \in Deliveries : IsSucceeded /\ resp[d].status = 200}
Notifications == UNION {{<<d, i>> : i \in 1..Sent(d)} : d \in Deliveries}

(* C19: notifications are per delivery, not per Order.  Every delivery of   *)
(* the payment-succeeded event that has returned 200 has sent exactly one   *)
(* notification, for the Order it found or created, and no other delivery   *)
(* has sent any: as many notifications have been sent as deliveries have    *)
(* returned 200, and for each Order as many as deliveries have returned 200 *)
(* for it.                                                                  *)
C19_OneNotificationPerDelivery ==
    /\ \A d \in Acknowledged : Sent(d) = 1 /\ log[d].mail[1].order = order[d]
    /\ \A d \in Deliveries \ Acknowledged : Sent(d) = 0
    /\ Cardinality(Notifications) = Cardinality(Acknowledged)
    /\ \A o \in orders :
          Cardinality({n \in Notifications : log[n[1]].mail[n[2]].order = o.id})
            = Cardinality({d \in Acknowledged : order[d] = o.id})

(* Every delivery has returned 200 for the one Order of the payment, the    *)
(* first by creating it and the others by finding it, and as many           *)
(* notifications as deliveries name that Order.                             *)
C19_Witness ==
    \E o \in orders :
        /\ orders = {o}
        /\ resp[1] = Created200 /\ order[1] = o.id
        /\ \A d \in Deliveries \ {1} : resp[d] = Existed200
        /\ \A d \in Deliveries : log[d].mail = <<[to |-> o.email, order |-> o.id]>>
        /\ Cardinality(Notifications) = NDeliveries

----------------------------------------------------------------------------
(* Two or more Orders match the identity tuple of the event. *)
Duplicates == Cardinality(orders) >= 2 /\ Cardinality(Found) >= 2

(* The same of the store as the step leaves it. *)
DuplicatesAfter ==
    /\ Cardinality(orders') >= 2
    /\ Cardinality({o \in orders' : Matches(o, LookupFilter(event))}) >= 2

(* Delivery d makes a lookup in this step. *)
LooksUp(d) == pc[d] = "lookup" /\ log'[d].lookups = log[d].lookups + 1

(* A lookup that sees two or more matching Orders ends the invocation with  *)
(* the uncaught MultipleObjectsReturned: no response, and no Order created  *)
(* or deleted and no notification sent, in that step or earlier in the      *)
(* invocation; a lookup that sees fewer does not end so.                    *)
DuplicatesFailTheLookup ==
    \A d \in Deliveries :
        LooksUp(d) =>
            IF Duplicates
            THEN /\ pc'[d] = "done"
                 /\ resp'[d].status = 0
                 /\ resp'[d].raised = "Order.MultipleObjectsReturned"
                 /\ orders' = orders /\ lineItems' = lineItems
                 /\ log'[d].created = {} /\ log'[d].deleted = {}
                 /\ log'[d].createCalls = 0 /\ log'[d].mail = <<>>
            ELSE resp'[d].raised = ""

(* C20 as stated: a lookup that sees two or more matching Orders ends the   *)
(* invocation with an uncaught error and no effect, and once duplicates     *)
(* exist they stay, so that every redelivery of the event fails the same    *)
(* way.                                                                     *)
C20_DuplicatesFailEveryRedelivery ==
    [][ /\ DuplicatesFailTheLookup
        /\ (orders' # orders /\ Duplicates) => DuplicatesAfter
      ]_vars

(* C20, amended: a lookup that sees two or more matching Orders ends the    *)
(* invocation with an uncaught error and no effect, so every redelivery     *)
(* fails the same way for as long as the duplicates remain; they cease to   *)
(* exist only when the invocation that created one of them fails on a line  *)
(* item and deletes its Order, after which a lookup finds the Order that is *)
(* left.                                                                    *)
C20_DuplicatesFailWhileTheyRemain ==
    [][ /\ DuplicatesFailTheLookup
        /\ (orders' # orders /\ Duplicates /\ ~DuplicatesAfter)
             => \E d \in Deliveries :
                    /\ pc[d] = "items" /\ resp'[d] = Error500
                    /\ log'[d].failure = "line_item"
                    /\ log'[d].deleted = {order[d]}
                    /\ orders' = {o \in orders : o.id # order[d]}
      ]_vars

(* The checkout's Order and a delivery's Order both match; another          *)
(* delivery's lookup has ended in the uncaught error, having created,       *)
(* deleted and sent nothing.                                                *)
C20_Witness ==
    /\ Duplicates
    /\ \E d \in Deliveries :
          /\ log[d].failure = "order_get"
          /\ resp[d] = Raised("Order.MultipleObjectsReturned")
          /\ log[d].created = {} /\ log[d].deleted = {} /\ Sent(d) = 0

====
